---- MODULE Spec2Model ----
(***************************************************************************)
(* Caption model construction (models/caption.py) and the evaluation       *)
(* script's checkpoint-driven configuration override (eval.py).            *)
(*                                                                         *)
(* Tensors are modelled by their shape and by the part of their content    *)
(* the assembling code moves around: a feature tensor [B, C, len] carries  *)
(* one origin tag per position of its length axis; a mask [B, len] carries *)
(* its boolean rows.  Shapes are 1-indexed tuples: torch's shape[k] is     *)
(* shape[k+1] here.                                                        *)
(***************************************************************************)
EXTENDS Integers, Sequences, FiniteSets, TLC

VARIABLES
    config,     \* Config(): use_global_features, use_location_features, ...
    args,       \* eval.py command line: checkpoint, override_config
    exists,     \* os.path.exists(args.checkpoint)
    model,      \* the nn.Module build_model returned, or NoModel
    criterion,  \* the loss build_model returned, or "None"
    frame,      \* the arguments of the forward call in flight
    call,       \* the transformer invocation of the forward call in flight
    raised,     \* the exception that ended the run, or NoError
    pc,         \* "start" | "ready" | "called" | "failed", and in the training
                \* loop "training" | "saved" | "early_stopped" | "finished"
    overrides,  \* number of calls of override_config_with_checkpoint so far
    epoch,      \* main's loop variable: the epoch run last (start_epoch - 1
                \* before the first one)
    cider_scores, \* main's list of the CIDEr scores recorded so far
    cider_score,  \* the CIDEr score of the epoch run last
    saved       \* the checkpoints save_ckp has written, oldest first

trainVars == <<epoch, cider_scores, cider_score, saved>>

vars == <<config, args, exists, model, criterion, frame, call, raised, pc,
          overrides, epoch, cider_scores, cider_score, saved>>

-----------------------------------------------------------------------------
(* Bounds of the model *)

MaxGrid == 2        \* backbone feature grids are h x w with h, w in 1..MaxGrid
MaxLoc == 2         \* location vectors have width 1..MaxLoc (and LocDim)
MaxSteps == 1       \* optimizer steps taken by the surrounding training loop
MaxFrags == 5       \* a checkpoint name is made of at most MaxFrags fragments
MaxOverrides == 2   \* calls of override_config_with_checkpoint in one run

BatchSizes == {1, 2}
HiddenDims == {256, 512}
VocabSizes == {1000}

(* Program constants *)

LocDim == 7         \* nn.Linear(7, hidden_dim) of CaptionLoc
LocUnit == 1        \* nn.Linear(1, hidden_dim) of CaptionGlobalLoc
MlpHidden == 512    \* MLP(hidden_dim, 512, vocab_size, 3)
MlpLayers == 3

-----------------------------------------------------------------------------
(* Python's None for a tensor argument, an absent module, an absent model *)

None == [none |-> TRUE]
NoModel == [class |-> "NoneType"]
NoCall == [kind |-> "none"]
NoFrame == [kind |-> "none"]
NoArgs == [checkpoint |-> <<>>, override_config |-> FALSE]
NoError == [type |-> "none", msg |-> ""]

\* the training loop's variables before main reaches "Start Training.."
NotTraining ==
    /\ epoch = -1
    /\ cider_scores = <<>>
    /\ cider_score = 0
    /\ saved = <<>>

Max(a, b) == IF a >= b THEN a ELSE b

RECURSIVE FlattenRows(_)
\* row-major concatenation of the rows of a grid (torch.flatten of [h, w])
FlattenRows(rows) ==
    IF rows = <<>> THEN <<>> ELSE Head(rows) \o FlattenRows(Tail(rows))

-----------------------------------------------------------------------------
(* Inputs of a forward call.  Images are given on the backbone's feature
   grid: an image of size <<vh, vw>> covers vh x vw cells of it. *)

\* a padded image's mask on an h x w grid whose valid region is the top-left
\* vh x vw rectangle (TRUE = padding); vh = 0 or vw = 0 is an all-padding image
RectMask(h, w, vh, vw) ==
    [r \in 1..h |-> [c \in 1..w |-> (r > vh) \/ (c > vw)]]

\* batches the caller has already wrapped in a NestedTensor: every sample is
\* either all image or all padding (the synthetic fully-padded image)
UniformMasks(h, w) == {RectMask(h, w, h, w), RectMask(h, w, 0, 0)}

NestedBatches ==
    UNION {[nested : {TRUE}, b : {b}, h : {h}, w : {w},
            mask : [1..b -> UniformMasks(h, w)]] :
           b \in BatchSizes, h \in 1..MaxGrid, w \in 1..MaxGrid}

\* raw lists of images, given by the size of each image: wrapping them pads
\* each image on the right and at the bottom
RawBatches ==
    UNION {[nested : {FALSE}, sizes : [1..b -> (1..MaxGrid) \X (1..MaxGrid)]] :
           b \in BatchSizes}

ImageInputs == NestedBatches \cup RawBatches

BatchOf(samples) == IF samples.nested THEN samples.b ELSE Len(samples.sizes)

\* loc_feats, a [b, n] tensor for the b samples of the batch
LocWidths == (1..MaxLoc) \cup {LocDim}
LocInputs(b) == [shape : {b} \X LocWidths]

RECURSIVE MaxOver(_, _)
MaxOver(sizes, k) ==
    IF sizes = <<>> THEN 0 ELSE Max(Head(sizes)[k], MaxOver(Tail(sizes), k))

\* models/utils.py: pad every image to the largest height and width of the
\* batch and mask the padding
nested_tensor_from_tensor_list(samples) ==
    LET b == Len(samples.sizes)
        h == MaxOver(samples.sizes, 1)
        w == MaxOver(samples.sizes, 2)
    IN  [nested |-> TRUE, b |-> b, h |-> h, w |-> w,
         mask |-> [i \in 1..b |->
                     RectMask(h, w, samples.sizes[i][1], samples.sizes[i][2])]]

\* `if not isinstance(samples, NestedTensor): samples = nested_tensor_...`
Wrap(samples) ==
    IF samples.nested THEN samples ELSE nested_tensor_from_tensor_list(samples)

-----------------------------------------------------------------------------
(* Sub-modules *)

\* backbone(samples)['0'].decompose(): a feature grid [B, C, h, w] and its
\* downsampled mask [B, h, w]; every cell is tagged with the instance that
\* produced it and the image argument it came from
Backbone(inst, role, nt) ==
    [src  |-> [shape |-> <<nt.b, "num_channels", nt.h, nt.w>>,
               data  |-> [r \in 1..nt.h |-> [c \in 1..nt.w |->
                           [of |-> role, cell |-> <<r, c>>, by |-> <<inst>>]]]],
     mask |-> [shape |-> <<nt.b, nt.h, nt.w>>, data |-> nt.mask]]

\* nn.Conv2d(backbone.num_channels, hidden_dim, kernel_size=1)
Conv2d(inst, hidden_dim, x) ==
    [shape |-> <<x.shape[1], hidden_dim, x.shape[3], x.shape[4]>>,
     data  |-> [r \in 1..x.shape[3] |-> [c \in 1..x.shape[4] |->
                 [x.data[r][c] EXCEPT !.by = @ \o <<inst>>]]]]

\* src.flatten(2): [B, C, h, w] -> [B, C, h*w]
Flatten2(x) ==
    [shape |-> <<x.shape[1], x.shape[2], x.shape[3] * x.shape[4]>>,
     data  |-> FlattenRows(x.data)]

\* mask.flatten(1): [B, h, w] -> [B, h*w]
Flatten1(m) ==
    [shape |-> <<m.shape[1], m.shape[2] * m.shape[3]>>,
     data  |-> [i \in 1..m.shape[1] |-> FlattenRows(m.data[i])]]

\* torch.zeros((b, n)).bool()
ZerosBool(b, n) ==
    [shape |-> <<b, n>>, data |-> [i \in 1..b |-> [k \in 1..n |-> FALSE]]]

\* torch.concat([a, b], 2) of [B, C, len] tensors
CatOk2(a, b) == a.shape[1] = b.shape[1] /\ a.shape[2] = b.shape[2]
Cat2(a, b) ==
    [shape |-> <<a.shape[1], a.shape[2], a.shape[3] + b.shape[3]>>,
     data  |-> a.data \o b.data]

\* torch.concat([a, b], 1) of [B, len] masks
CatOk1(a, b) == a.shape[1] = b.shape[1]
Cat1(a, b) ==
    [shape |-> <<a.shape[1], a.shape[2] + b.shape[2]>>,
     data  |-> [i \in 1..a.shape[1] |-> a.data[i] \o b.data[i]]]

\* nn.Linear(in_features, out_features) applied to x: the last axis of x has
\* to be in_features wide and becomes out_features wide
LinearOk(layer, x) == x.shape[Len(x.shape)] = layer.in_features
Linear(layer, x) ==
    [shape |-> SubSeq(x.shape, 1, Len(x.shape) - 1) \o <<layer.out_features>>]

\* models/utils.py ensure_unmasked_values on a [B, h, w] mask: a sample whose
\* positions are all masked gets its first position unmasked
AllMasked(grid) ==
    \A r \in DOMAIN grid : \A c \in DOMAIN grid[r] : grid[r][c]
ensure_unmasked_values(m) ==
    [m EXCEPT !.data = [i \in DOMAIN m.data |->
        IF AllMasked(m.data[i])
        THEN [m.data[i] EXCEPT ![1][1] = FALSE]
        ELSE m.data[i]]]

\* MLP.__init__: the (in, out) widths of its num_layers linear layers
MLP(inst, input_dim, hidden_dim, output_dim, num_layers) ==
    LET h == [k \in 1..(num_layers - 1) |-> hidden_dim]
        ins == <<input_dim>> \o h
        outs == h \o <<output_dim>>
    IN  [id |-> inst, kind |-> "MLP",
         layers |-> [k \in 1..num_layers |-> <<ins[k], outs[k]>>]]

-----------------------------------------------------------------------------
(* Model construction *)

InitParams == [from |-> "init", step |-> 0]

\* Caption.__init__
Caption(backbone, transformer, positional_encoding, hidden_dim, vocab_size) ==
    [class |-> "Caption",
     backbone |-> backbone,
     positional_encoding |-> positional_encoding,
     input_proj |-> [id |-> 3, kind |-> "Conv2d", out_channels |-> hidden_dim],
     loc_proj |-> None,
     transformer |-> transformer,
     mlp |-> MLP(4, hidden_dim, MlpHidden, vocab_size, MlpLayers),
     params |-> InitParams]

\* CaptionLoc.__init__
CaptionLoc(backbone, transformer, positional_encoding, hidden_dim, vocab_size) ==
    [class |-> "CaptionLoc",
     backbone |-> backbone,
     positional_encoding |-> positional_encoding,
     input_proj |-> [id |-> 3, kind |-> "Conv2d", out_channels |-> hidden_dim],
     loc_proj |-> [id |-> 4, kind |-> "Linear",
                   in_features |-> LocDim, out_features |-> hidden_dim],
     transformer |-> transformer,
     mlp |-> MLP(5, hidden_dim, MlpHidden, vocab_size, MlpLayers),
     params |-> InitParams]

\* CaptionGlobalLoc.__init__
CaptionGlobalLoc(backbone, transformer, positional_encoding, hidden_dim, vocab_size) ==
    [class |-> "CaptionGlobalLoc",
     backbone |-> backbone,
     positional_encoding |-> positional_encoding,
     input_proj |-> [id |-> 3, kind |-> "Conv2d", out_channels |-> hidden_dim],
     loc_proj |-> [id |-> 4, kind |-> "Linear",
                   in_features |-> LocUnit, out_features |-> hidden_dim],
     transformer |-> transformer,
     mlp |-> MLP(5, hidden_dim, MlpHidden, vocab_size, MlpLayers),
     params |-> InitParams]

build_backbone(cfg) == [id |-> 1, kind |-> "backbone"]
build_concat_transformer(cfg) == [id |-> 2, kind |-> "transformer"]

\* PickModel with the unsupported combination falling back to the default class
PickModel_Fallback(use_global, use_location) ==
    IF ~use_global /\ use_location THEN "CaptionLoc"
    ELSE IF use_global /\ use_location THEN "CaptionGlobalLoc"
    ELSE "Caption"

\* PickModel testing only use_location in its second branch
PickModel_LocOnly(use_global, use_location) ==
    IF ~use_global /\ ~use_location THEN "Caption"
    ELSE IF use_location THEN "CaptionLoc"
    ELSE IF use_global /\ use_location THEN "CaptionGlobalLoc"
    ELSE "NotImplementedError"

\* build_model's choice of the model class from the two flags
PickModel(use_global, use_location) ==
    IF ~use_global /\ ~use_location THEN "Caption"
    ELSE IF ~use_global /\ use_location THEN "CaptionLoc"
    ELSE IF use_global /\ use_location THEN "CaptionGlobalLoc"
    ELSE "NotImplementedError"

\* build_model(config): what it returns, or the exception it raises
build_model(cfg) ==
    LET backbone == build_backbone(cfg)
        transformer == build_concat_transformer(cfg)
        Model == PickModel(cfg.use_global_features, cfg.use_location_features)
    IN  IF Model = "NotImplementedError"
        THEN [raised |-> [type |-> "NotImplementedError", msg |-> ""],
              model |-> NoModel, criterion |-> "None"]
        ELSE [raised |-> NoError,
              model |->
                CASE Model = "Caption" ->
                       Caption(backbone, transformer, None,
                               cfg.hidden_dim, cfg.vocab_size)
                  [] Model = "CaptionLoc" ->
                       CaptionLoc(backbone, transformer, None,
                                  cfg.hidden_dim, cfg.vocab_size)
                  [] Model = "CaptionGlobalLoc" ->
                       CaptionGlobalLoc(backbone, transformer, None,
                                        cfg.hidden_dim, cfg.vocab_size),
              criterion |-> "CrossEntropyLoss"]

-----------------------------------------------------------------------------
(* Forward passes *)

\* the wrap / backbone / decompose / input_proj prefix every image goes through
Features(m, role, samples) ==
    LET nt == Wrap(samples)
        features == Backbone(m.backbone.id, role, nt)
    IN  [src  |-> Conv2d(m.input_proj.id, m.input_proj.out_channels, features.src),
         mask |-> features.mask]

\* x.unsqueeze(-1) and x.unsqueeze(2) of a 2-axis tensor; x.permute(0, 2, 1)
Unsqueeze(x) == [x EXCEPT !.shape = @ \o <<1>>]
Permute021(x) == [x EXCEPT !.shape = <<@[1], @[3], @[2]>>]

\* self.transformer(...) followed by self.mlp(hs.permute(1, 0, 2)): the call
\* the transformer receives, and the logits [B, T, vocab_size] computed from
\* it by the transformer and the head with the current parameters.
\* return_attention only selects whether att accompanies the logits in the
\* value forward returns; it reaches neither the transformer nor the head.
Logits(m, src_t) ==
    [shape |-> <<src_t.shape[1], "T", m.mlp.layers[Len(m.mlp.layers)][2]>>,
     by |-> <<m.transformer.id, m.mlp.id>>,
     params |-> m.params]

Transformer(m, src_t, mask_t, src_c, mask_c) ==
    [ok |-> TRUE,
     call |-> [kind |-> "transformer",
               src_t |-> src_t, mask_t |-> mask_t,
               src_c |-> src_c, mask_c |-> mask_c,
               tgt |-> "target_exp", tgt_mask |-> "target_exp_mask",
               out |-> Logits(m, src_t)]]

Raise(e) == [ok |-> FALSE, raised |-> [type |-> e, msg |-> ""]]

\* Caption_forward handing its own stream to the transformer as context too
Caption_forward_WithContext(m, samples) ==
    LET f == Features(m, "t", samples)
        src == Flatten2(f.src)
        mask == Flatten1(f.mask)
    IN  Transformer(m, src, mask, src, mask)

\* Caption.forward
Caption_forward(m, samples) ==
    LET f == Features(m, "t", samples)
        src == Flatten2(f.src)
        mask == Flatten1(f.mask)
    IN  Transformer(m, src, mask, None, None)

\* CaptionLoc_loc with torch.ones in place of torch.zeros for the mask
CaptionLoc_loc_Masked(m, loc_feats, t_mask) ==
    LET proj == Linear(m.loc_proj, loc_feats)
    IN  [src  |-> [shape |-> Unsqueeze(proj).shape,
                   data  |-> <<[of |-> "loc", cell |-> <<>>,
                                by |-> <<m.loc_proj.id>>]>>],
         mask |-> [shape |-> <<loc_feats.shape[1], 1>>,
                   data  |-> [i \in 1..loc_feats.shape[1] |-> <<TRUE>>]]]

\* CaptionLoc.forward: the location stream (one position) and its mask
CaptionLoc_loc(m, loc_feats, t_mask) ==
    LET proj == Linear(m.loc_proj, loc_feats)
    IN  [src  |-> [shape |-> Unsqueeze(proj).shape,
                   data  |-> <<[of |-> "loc", cell |-> <<>>,
                                by |-> <<m.loc_proj.id>>]>>],
         mask |-> ZerosBool(loc_feats.shape[1], 1)]

\* CaptionLoc.forward
CaptionLoc_forward(m, t_samples, loc_feats) ==
    LET f == Features(m, "t", t_samples)
        t_src == Flatten2(f.src)
        t_mask == Flatten1(f.mask)
    IN  IF ~LinearOk(m.loc_proj, loc_feats) THEN Raise("RuntimeError")
        ELSE
        LET loc == CaptionLoc_loc(m, loc_feats, t_mask)
        IN  IF ~(CatOk2(t_src, loc.src) /\ CatOk1(t_mask, loc.mask))
            THEN Raise("RuntimeError")
            ELSE Transformer(m, Cat2(t_src, loc.src), Cat1(t_mask, loc.mask),
                             None, None)

\* CaptionGlobalLoc_loc with the one-column location mask of CaptionLoc
CaptionGlobalLoc_loc_OneMask(m, loc_feats) ==
    LET loc_in == Unsqueeze(loc_feats)
        loc_src == Permute021(Linear(m.loc_proj, loc_in))
    IN  [ok   |-> LinearOk(m.loc_proj, loc_in),
         src  |-> [shape |-> loc_src.shape,
                   data  |-> [k \in 1..loc_feats.shape[2] |->
                               [of |-> "loc", cell |-> <<k>>,
                                by |-> <<m.loc_proj.id>>]]],
         mask |-> ZerosBool(loc_feats.shape[1], 1)]

\* CaptionGlobalLoc.forward: the location stream (one position per component
\* of loc_feats) and its mask
CaptionGlobalLoc_loc(m, loc_feats) ==
    LET loc_in == Unsqueeze(loc_feats)
        loc_src == Permute021(Linear(m.loc_proj, loc_in))
    IN  [ok   |-> LinearOk(m.loc_proj, loc_in),
         src  |-> [shape |-> loc_src.shape,
                   data  |-> [k \in 1..loc_feats.shape[2] |->
                               [of |-> "loc", cell |-> <<k>>,
                                by |-> <<m.loc_proj.id>>]]],
         mask |-> ZerosBool(loc_src.shape[1], loc_src.shape[3])]

\* CaptionGlobalLoc_global without the call of ensure_unmasked_values
CaptionGlobalLoc_global_NoEnsure(m, g_samples) ==
    LET g == Features(m, "g", g_samples)
    IN  [src |-> Flatten2(g.src), mask |-> Flatten1(g.mask)]

\* CaptionGlobalLoc_global with a backbone and a projection of its own
CaptionGlobalLoc_global_OwnModules(m, g_samples) ==
    LET own == [m EXCEPT !.backbone.id = 6, !.input_proj.id = 7]
        g == Features(own, "g", g_samples)
        g_mask == ensure_unmasked_values(g.mask)
    IN  [src |-> Flatten2(g.src), mask |-> Flatten1(g_mask)]

\* CaptionGlobalLoc.forward: the context stream of the global image
CaptionGlobalLoc_global(m, g_samples) ==
    LET g == Features(m, "g", g_samples)
        g_mask == ensure_unmasked_values(g.mask)
    IN  [src |-> Flatten2(g.src), mask |-> Flatten1(g_mask)]

\* CaptionGlobalLoc_forward with the concat operands in the other order
CaptionGlobalLoc_forward_LocFirst(m, t_samples, g_samples, loc_feats) ==
    LET f == Features(m, "t", t_samples)
        t_src == Flatten2(f.src)
        t_mask == Flatten1(f.mask)
        loc == CaptionGlobalLoc_loc(m, loc_feats)
        g == CaptionGlobalLoc_global(m, g_samples)
    IN  Transformer(m, Cat2(loc.src, t_src), Cat1(loc.mask, t_mask),
                    g.src, g.mask)

\* CaptionGlobalLoc.forward
CaptionGlobalLoc_forward(m, t_samples, g_samples, loc_feats) ==
    LET f == Features(m, "t", t_samples)
        t_src == Flatten2(f.src)
        t_mask == Flatten1(f.mask)
        loc == CaptionGlobalLoc_loc(m, loc_feats)
    IN  IF ~loc.ok THEN Raise("RuntimeError")
        ELSE IF ~(CatOk2(t_src, loc.src) /\ CatOk1(t_mask, loc.mask))
        THEN Raise("RuntimeError")
        ELSE
        LET g == CaptionGlobalLoc_global(m, g_samples)
        IN  Transformer(m, Cat2(t_src, loc.src), Cat1(t_mask, loc.mask),
                        g.src, g.mask)

-----------------------------------------------------------------------------
(* The training / inference run around the model: main.py builds the model
   once and then calls forward batch after batch *)

Configs ==
    [use_global_features : BOOLEAN, use_location_features : BOOLEAN,
     hidden_dim : HiddenDims, vocab_size : VocabSizes]

Init ==
    /\ config \in Configs
    /\ args = NoArgs
    /\ exists = FALSE
    /\ model = NoModel
    /\ criterion = "None"
    /\ frame = NoFrame
    /\ call = NoCall
    /\ raised = NoError
    /\ pc = "start"
    /\ overrides = 0
    /\ NotTraining

\* main.py: model, criterion = caption.build_model(config)
BuildModel ==
    /\ pc = "start"
    /\ LET r == build_model(config)
       IN  /\ model' = r.model
           /\ criterion' = r.criterion
           /\ raised' = r.raised
           /\ pc' = IF r.raised = NoError THEN "ready" ELSE "failed"
    /\ UNCHANGED <<config, args, exists, frame, call, overrides>>
    /\ UNCHANGED trainVars

\* Forwarded with the forward pass also updating the parameters
Forwarded_TouchesParams(a, r) ==
    /\ IF r.ok
       THEN frame' = a /\ call' = r.call /\ pc' = "called"
            /\ raised' = raised
       ELSE frame' = NoFrame /\ call' = NoCall /\ pc' = "failed"
            /\ raised' = r.raised
    /\ model' = [model EXCEPT !.params.step = @ + 1]
    /\ UNCHANGED <<config, args, exists, criterion, overrides>>
    /\ UNCHANGED trainVars

\* the effect of one forward call: the transformer is invoked, or the call raises
Forwarded(a, r) ==
    /\ IF r.ok
       THEN frame' = a /\ call' = r.call /\ pc' = "called"
            /\ raised' = raised
       ELSE frame' = NoFrame /\ call' = NoCall /\ pc' = "failed"
            /\ raised' = r.raised
    /\ UNCHANGED <<config, args, exists, model, criterion, overrides>>
    /\ UNCHANGED trainVars

ForwardCaption ==
    /\ pc = "ready"
    /\ model.class = "Caption"
    /\ \E samples \in ImageInputs :
          Forwarded([kind |-> "forward", samples |-> samples],
                    Caption_forward(model, samples))

ForwardCaptionLoc ==
    /\ pc = "ready"
    /\ model.class = "CaptionLoc"
    /\ \E t_samples \in ImageInputs :
       \E loc_feats \in LocInputs(BatchOf(t_samples)) :
          Forwarded([kind |-> "forward", t_samples |-> t_samples,
                     loc_feats |-> loc_feats],
                    CaptionLoc_forward(model, t_samples, loc_feats))

ForwardCaptionGlobalLoc ==
    /\ pc = "ready"
    /\ model.class = "CaptionGlobalLoc"
    /\ \E t_samples \in ImageInputs, g_samples \in ImageInputs :
       \E loc_feats \in LocInputs(BatchOf(t_samples)) :
          /\ BatchOf(t_samples) = BatchOf(g_samples)
          /\ Forwarded([kind |-> "forward", t_samples |-> t_samples,
                        g_samples |-> g_samples, loc_feats |-> loc_feats],
                       CaptionGlobalLoc_forward(model, t_samples, g_samples,
                                                loc_feats))

\* the caller is done with the logits (evaluation, decoding)
Consume ==
    /\ pc = "called"
    /\ frame' = NoFrame
    /\ call' = NoCall
    /\ pc' = "ready"
    /\ UNCHANGED <<config, args, exists, model, criterion, raised, overrides>>
    /\ UNCHANGED trainVars

\* the training loop's backward pass and optimizer.step() on the logits
OptimizerStep ==
    /\ pc = "called"
    /\ model.params.step < MaxSteps
    /\ model' = [model EXCEPT !.params.step = @ + 1]
    /\ frame' = NoFrame
    /\ call' = NoCall
    /\ pc' = "ready"
    /\ UNCHANGED <<config, args, exists, criterion, raised, overrides>>
    /\ UNCHANGED trainVars

Next ==
    \/ BuildModel
    \/ ForwardCaption
    \/ ForwardCaptionLoc
    \/ ForwardCaptionGlobalLoc
    \/ Consume
    \/ OptimizerStep

Spec == Init /\ [][Next]_vars

-----------------------------------------------------------------------------
(* eval.py: the configuration override driven by the checkpoint's name *)

\* a path separator and the pieces main.py's cpt_template puts before '_#.pth'
Fragments ==
    { <<"/">>,
      <<"_", "l", "o", "c">>,
      <<"_", "g", "l", "o", "b">>,
      <<"_", "c", "h", "e", "c", "k", "p", "o", "i", "n", "t">> }

RECURSIVE NamesUpTo(_)
NamesUpTo(k) ==
    IF k = 0 THEN {<<>>}
    ELSE LET shorter == NamesUpTo(k - 1)
         IN  shorter \cup {n \o f : n \in shorter, f \in Fragments}

CheckpointNames == NamesUpTo(MaxFrags)

loc_checkpoint ==
    <<"l", "o", "c", "_", "c", "h", "e", "c", "k", "p", "o", "i", "n", "t">>
loc_glob_checkpoint ==
    <<"l", "o", "c", "_", "g", "l", "o", "b", "_",
      "c", "h", "e", "c", "k", "p", "o", "i", "n", "t">>

\* Python's `pat in s` on strings
Contains(pat, s) ==
    \E i \in 0..(Len(s) - Len(pat)) : SubSeq(s, i + 1, i + Len(pat)) = pat

OverrideMsg ==
    "Overriding model checkpoints is not supported for the model type given by the checkpoint"

\* override_config_with_checkpoint setting only use_global_features in its
\* second branch
override_config_with_checkpoint_GlobOnly(checkpoint, cfg) ==
    LET use_glob == cfg.use_global_features
        use_loc == cfg.use_location_features
    IN  IF Contains(loc_checkpoint, checkpoint)
        THEN [raised |-> NoError,
              config |-> IF ~(~use_glob /\ use_loc)
                         THEN [cfg EXCEPT !.use_global_features = FALSE,
                                          !.use_location_features = TRUE]
                         ELSE cfg]
        ELSE IF Contains(loc_glob_checkpoint, checkpoint)
        THEN [raised |-> NoError,
              config |-> IF ~(use_glob /\ use_loc)
                         THEN [cfg EXCEPT !.use_global_features = TRUE]
                         ELSE cfg]
        ELSE [raised |-> [type |-> "NotImplementedError", msg |-> OverrideMsg],
              config |-> cfg]

\* override_config_with_checkpoint(checkpoint, config): the config it leaves
\* behind and the exception it raises
override_config_with_checkpoint(checkpoint, cfg) ==
    LET use_glob == cfg.use_global_features
        use_loc == cfg.use_location_features
    IN  IF Contains(loc_checkpoint, checkpoint)
        THEN [raised |-> NoError,
              config |-> IF ~(~use_glob /\ use_loc)
                         THEN [cfg EXCEPT !.use_global_features = FALSE,
                                          !.use_location_features = TRUE]
                         ELSE cfg]
        ELSE IF Contains(loc_glob_checkpoint, checkpoint)
        THEN [raised |-> NoError,
              config |-> IF ~(use_glob /\ use_loc)
                         THEN [cfg EXCEPT !.use_global_features = TRUE,
                                          !.use_location_features = TRUE]
                         ELSE cfg]
        ELSE [raised |-> [type |-> "NotImplementedError", msg |-> OverrideMsg],
              config |-> cfg]

\* prepare_model(args, config): the config, the model and the exception it
\* leaves behind
prepare_model(a, cfg, path_exists) ==
    LET o == IF a.override_config
             THEN override_config_with_checkpoint(a.checkpoint, cfg)
             ELSE [raised |-> NoError, config |-> cfg]
    IN  IF o.raised # NoError
        THEN [raised |-> o.raised, config |-> o.config, model |-> NoModel,
              overridden |-> FALSE]
        ELSE IF ~path_exists
        THEN [raised |-> [type |-> "NotImplementedError",
                          msg |-> "Give valid checkpoint path"],
              config |-> o.config, model |-> NoModel,
              overridden |-> a.override_config]
        ELSE LET b == build_model(o.config)
             IN  [raised |-> b.raised, config |-> o.config,
                  model |-> IF b.raised = NoError
                            THEN [b.model EXCEPT !.params.from = "checkpoint"]
                            ELSE NoModel,
                  overridden |-> a.override_config]

EvalConfigs == {c \in Configs : c.hidden_dim = 256 /\ c.vocab_size = 1000}

InitEval ==
    /\ config \in EvalConfigs
    /\ args \in [checkpoint : CheckpointNames, override_config : BOOLEAN]
    /\ exists \in BOOLEAN
    /\ model = NoModel
    /\ criterion = "None"
    /\ frame = NoFrame
    /\ call = NoCall
    /\ raised = NoError
    /\ pc = "start"
    /\ overrides = 0
    /\ NotTraining

\* a call of override_config_with_checkpoint(args.checkpoint, config)
OverrideConfig ==
    /\ pc = "start"
    /\ overrides < MaxOverrides
    /\ LET r == override_config_with_checkpoint(args.checkpoint, config)
       IN  /\ config' = r.config
           /\ raised' = r.raised
           /\ pc' = IF r.raised = NoError THEN "start" ELSE "failed"
           /\ overrides' = IF r.raised = NoError THEN overrides + 1
                           ELSE overrides
    /\ UNCHANGED <<args, exists, model, criterion, frame, call>>
    /\ UNCHANGED trainVars

\* main_val_set / main_image: model = prepare_model(args, config)
PrepareModel ==
    /\ pc = "start"
    /\ LET r == prepare_model(args, config, exists)
       IN  /\ config' = r.config
           /\ raised' = r.raised
           /\ model' = r.model
           /\ pc' = IF r.raised = NoError THEN "ready" ELSE "failed"
           /\ overrides' = IF r.overridden THEN overrides + 1 ELSE overrides
    /\ UNCHANGED <<args, exists, criterion, frame, call>>
    /\ UNCHANGED trainVars

NextEval ==
    \/ OverrideConfig
    \/ PrepareModel

SpecEval == InitEval /\ [][NextEval]_vars

-----------------------------------------------------------------------------
(* main.py: the training loop with early stopping *)

MaxEpochs == 11
MaxScore == 1

\* the CIDEr scores eval_model can report: none is negative
Scores == 0 .. MaxScore

\* cider_scores[-10:] takes the last 10 recorded scores
Window == 10

\* main's configuration: one model, training from scratch or resumed after
\* one epoch (config.start_epoch = epoch + 1)
TrainConfigs ==
    [use_global_features : {FALSE}, use_location_features : {FALSE},
     hidden_dim : {256}, vocab_size : VocabSizes,
     early_stopping : BOOLEAN, start_epoch : {0, 1}, epochs : {MaxEpochs}]

\* python's s[-n:]
LastN(s, n) == SubSeq(s, Max(1, Len(s) - n + 1), Len(s))

\* python's min of a non-empty list
RECURSIVE Min(_)
Min(s) ==
    IF Len(s) = 1 THEN s[1]
    ELSE LET m == Min(Tail(s)) IN IF s[1] < m THEN s[1] ELSE m

\* the test with <= in place of <
EarlyStop_OrEqual(score, scores) == score <= Min(LastN(scores, Window))

\* cider_score < min(cider_scores[-10:])
EarlyStop(score, scores) == score < Min(LastN(scores, Window))

\* for epoch in range(config.start_epoch, config.epochs): where the loop
\* goes after the epoch e
LoopAfter(e) == IF e + 1 < config.epochs THEN "training" ELSE "finished"

InitTrain ==
    /\ config \in TrainConfigs
    /\ args = NoArgs
    /\ exists = FALSE
    /\ model = NoModel
    /\ criterion = "None"
    /\ frame = NoFrame
    /\ call = NoCall
    /\ raised = NoError
    /\ pc = "start"
    /\ overrides = 0
    /\ NotTraining

\* print("Start Training.."); cider_scores = [0]; the loop's header
StartTraining ==
    /\ pc = "ready"
    /\ cider_scores' = <<0>>
    /\ epoch' = config.start_epoch - 1
    /\ pc' = LoopAfter(config.start_epoch - 1)
    /\ UNCHANGED <<config, args, exists, model, criterion, frame, call,
                   raised, overrides, cider_score, saved>>

\* one epoch up to save_ckp: train_one_epoch_with_mmi, lr_scheduler.step(),
\* evaluate_with_mmi, eval_model and the checkpoint of the epoch
RunEpoch ==
    /\ pc = "training"
    /\ \E s \in Scores :
          /\ cider_score' = s
          /\ saved' = Append(saved, [epoch |-> epoch + 1, cider_score |-> s])
    /\ epoch' = epoch + 1
    /\ model' = [model EXCEPT !.params.step = @ + 1]
    /\ pc' = "saved"
    /\ UNCHANGED <<config, args, exists, criterion, frame, call, raised,
                   overrides, cider_scores>>

\* the rest of the epoch: the early stopping test, then the score is recorded
EndEpoch ==
    /\ pc = "saved"
    /\ IF config.early_stopping /\ EarlyStop(cider_score, cider_scores)
       THEN /\ pc' = "early_stopped"
            /\ UNCHANGED cider_scores
       ELSE /\ cider_scores' = Append(cider_scores, cider_score)
            /\ pc' = LoopAfter(epoch)
    /\ UNCHANGED <<config, args, exists, model, criterion, frame, call,
                   raised, overrides, epoch, cider_score, saved>>

NextTrain ==
    \/ BuildModel
    \/ StartTraining
    \/ RunEpoch
    \/ EndEpoch

SpecTrain == InitTrain /\ [][NextTrain]_vars

-----------------------------------------------------------------------------
(* Properties *)

Called == pc = "called"
IsNone(x) == x = None

\* the length axis of a stream and of its mask
StreamLen(src) == src.shape[3]
MaskLen(mask) == mask.shape[2]

\* C1: with use_global_features set and use_location_features unset,
\* build_model raises NotImplementedError whatever hidden_dim and vocab_size
\* are: no model and no criterion come back and no variant is instantiated.
C1_UnsupportedConfigFails ==
    (config.use_global_features /\ ~config.use_location_features)
        => /\ model = NoModel
           /\ criterion = "None"
           /\ pc \in {"start", "failed"}
           /\ pc = "failed" => raised.type = "NotImplementedError"
           /\ pc = "start" => raised = NoError

C1_Witness ==
    /\ config.use_global_features /\ ~config.use_location_features
    /\ config.hidden_dim = 512
    /\ pc = "failed"
    /\ raised.type = "NotImplementedError"

\* C2: build_model selects the variant from the two flags alone - (F,F)
\* Caption, (F,T) CaptionLoc, (T,T) CaptionGlobalLoc - and the model is that
\* variant in every later state, forward calls and optimizer steps included.
C2_VariantFromFlags ==
    LET g == config.use_global_features
        l == config.use_location_features
    IN  (pc # "start" /\ ~(g /\ ~l))
            => /\ model # NoModel
               /\ (~g /\ ~l) => model.class = "Caption"
               /\ (~g /\ l) => model.class = "CaptionLoc"
               /\ (g /\ l) => model.class = "CaptionGlobalLoc"
               /\ criterion = "CrossEntropyLoss"

C2_Witness ==
    /\ Called
    /\ model.class = "CaptionLoc"
    /\ ~config.use_global_features /\ config.use_location_features
    /\ model.params.step = 1

\* C3: every stream the transformer receives (the target stream, and the
\* context stream when there is one) has a mask as long as its features:
\* mask.shape[1] == features.shape[2] in torch's 0-based indexing.
C3_MaskLengthMatches ==
    Called =>
        /\ MaskLen(call.mask_t) = StreamLen(call.src_t)
        /\ Len(call.src_t.data) = StreamLen(call.src_t)
        /\ \A i \in DOMAIN call.mask_t.data :
              Len(call.mask_t.data[i]) = StreamLen(call.src_t)
        /\ ~IsNone(call.src_c) =>
              /\ MaskLen(call.mask_c) = StreamLen(call.src_c)
              /\ Len(call.src_c.data) = StreamLen(call.src_c)
              /\ \A i \in DOMAIN call.mask_c.data :
                    Len(call.mask_c.data[i]) = StreamLen(call.src_c)

C3_Witness ==
    /\ Called
    /\ model.class = "CaptionGlobalLoc"
    /\ frame.loc_feats.shape[2] = 2
    /\ StreamLen(call.src_t) = 6
    /\ StreamLen(call.src_c) = 2

\* the wrapped target image of the forward call in flight, its flattened
\* length, and the stream TargetOnly builds from the same image
TargetImage == Wrap(frame.t_samples)
TargetLen == TargetImage.h * TargetImage.w
TargetOnlyCall == Caption_forward(model, frame.t_samples).call

\* C4: CaptionLoc.forward hands the transformer a stream of length L + 1 for
\* a target grid of flattened length L, one more than TargetOnly builds from
\* the same images: the target positions first, the single location position
\* last, and the last mask entry of every sample FALSE.
C4_LocStreamOneLonger ==
    (Called /\ model.class = "CaptionLoc") =>
        LET L == TargetLen
        IN  /\ StreamLen(TargetOnlyCall.src_t) = L
            /\ StreamLen(call.src_t) = L + 1
            /\ SubSeq(call.src_t.data, 1, L) = TargetOnlyCall.src_t.data
            /\ \A k \in 1..L : call.src_t.data[k].of = "t"
            /\ call.src_t.data[L + 1].of = "loc"
            /\ MaskLen(call.mask_t) = L + 1
            /\ \A i \in 1..TargetImage.b :
                  /\ Len(call.mask_t.data[i]) = L + 1
                  /\ call.mask_t.data[i][L + 1] = FALSE
                  /\ SubSeq(call.mask_t.data[i], 1, L)
                        = TargetOnlyCall.mask_t.data[i]

C4_Witness ==
    /\ Called
    /\ model.class = "CaptionLoc"
    /\ TargetLen = 4
    /\ StreamLen(call.src_t) = 5
    /\ \E i \in 1..TargetImage.b : call.mask_t.data[i][4]

\* C5: the context mask CaptionGlobalLoc.forward hands the transformer has at
\* least one FALSE entry, also when the global batch is entirely padding.
C5_ContextNeverEmpty ==
    (Called /\ model.class = "CaptionGlobalLoc") =>
        \E i \in DOMAIN call.mask_c.data :
            \E k \in DOMAIN call.mask_c.data[i] : ~call.mask_c.data[i][k]

C5_Witness ==
    /\ Called
    /\ model.class = "CaptionGlobalLoc"
    /\ frame.g_samples.nested
    /\ frame.g_samples.b = 2
    /\ \A i \in 1..frame.g_samples.b : AllMasked(frame.g_samples.mask[i])

\* C6: Caption.forward and CaptionLoc.forward pass the transformer a target
\* stream and no context stream (src_c and mask_c are None); only
\* CaptionGlobalLoc.forward passes a context stream.
C6_ContextOnlyInGlobalLoc ==
    Called =>
        /\ ~IsNone(call.src_t) /\ ~IsNone(call.mask_t)
        /\ model.class \in {"Caption", "CaptionLoc"}
              => IsNone(call.src_c) /\ IsNone(call.mask_c)
        /\ model.class = "CaptionGlobalLoc"
              => ~IsNone(call.src_c) /\ ~IsNone(call.mask_c)

C6_Witness ==
    /\ Called
    /\ model.class = "Caption"
    /\ ~frame.samples.nested
    /\ IsNone(call.src_c)

\* forward of model m called again with the arguments of frame f
Again(m, f) ==
    CASE m.class = "Caption" -> Caption_forward(m, f.samples)
      [] m.class = "CaptionLoc" ->
            CaptionLoc_forward(m, f.t_samples, f.loc_feats)
      [] m.class = "CaptionGlobalLoc" ->
            CaptionGlobalLoc_forward(m, f.t_samples, f.g_samples, f.loc_feats)

C8_GlobalLocTargetStream ==
    (Called /\ model.class = "CaptionGlobalLoc") =>
        LET t == TargetImage
            g == Wrap(frame.g_samples)
            L == TargetLen
            N == frame.loc_feats.shape[2]
        IN  /\ StreamLen(call.src_t) = L + N
            /\ MaskLen(call.mask_t) = L + N
            /\ \A r \in 1..t.h : \A c \in 1..t.w :
                  /\ call.src_t.data[(r - 1) * t.w + c].of = "t"
                  /\ call.src_t.data[(r - 1) * t.w + c].cell = <<r, c>>
                  /\ \A i \in 1..t.b :
                        call.mask_t.data[i][(r - 1) * t.w + c] = t.mask[i][r][c]
            /\ \A k \in 1..N :
                  /\ call.src_t.data[L + k].of = "loc"
                  /\ call.src_t.data[L + k].cell = <<k>>
                  /\ \A i \in 1..t.b : call.mask_t.data[i][L + k] = FALSE
            /\ StreamLen(call.src_c) = g.h * g.w
            /\ MaskLen(call.mask_c) = g.h * g.w
            /\ \A k \in DOMAIN call.src_c.data : call.src_c.data[k].of = "g"

C8_Witness ==
    /\ Called
    /\ model.class = "CaptionGlobalLoc"
    /\ TargetLen = 4
    /\ frame.loc_feats.shape[2] = 2
    /\ \E i \in 1..TargetImage.b : call.mask_t.data[i][2] /\ ~call.mask_t.data[i][3]

\* C9: in CaptionGlobalLoc the target image and the global image go through
\* the one backbone and the one input projection the model owns; the
\* location projector exists in CaptionLoc and CaptionGlobalLoc and not in
\* Caption.
C9_SharedBackboneAndProjection ==
    /\ model # NoModel =>
          (IsNone(model.loc_proj) <=> model.class = "Caption")
    /\ (Called /\ model.class = "CaptionGlobalLoc") =>
          LET owned == <<model.backbone.id, model.input_proj.id>>
          IN  /\ \A k \in 1..TargetLen : call.src_t.data[k].by = owned
              /\ \A k \in DOMAIN call.src_c.data :
                    call.src_c.data[k].by = owned

C9_Witness ==
    /\ Called
    /\ model.class = "CaptionGlobalLoc"
    /\ Len(call.src_c.data) = 4
    /\ call.src_c.data[4].by = call.src_t.data[1].by

HasLoc == Contains(loc_checkpoint, args.checkpoint)
HasLocGlob == Contains(loc_glob_checkpoint, args.checkpoint)
FlagsAre(cfg, use_global, use_location) ==
    /\ cfg.use_global_features = use_global
    /\ cfg.use_location_features = use_location
Unsupported == [type |-> "NotImplementedError", msg |-> ""]

\* one step of the evaluation run seen as a call of
\* override_config_with_checkpoint; firstWins says whether 'loc_glob_checkpoint'
\* decides the flags only for names without 'loc_checkpoint'
OverrideStep(firstWins) ==
    LET returned == overrides' = overrides + 1
        refused == raised = NoError /\ raised'.msg = OverrideMsg
    IN  /\ returned =>
              /\ HasLoc \/ HasLocGlob
              /\ config'.use_location_features
              /\ HasLoc => FlagsAre(config', FALSE, TRUE)
              /\ (HasLocGlob /\ (firstWins => ~HasLoc))
                    => FlagsAre(config', TRUE, TRUE)
              /\ build_model(config').raised = NoError
              /\ raised' # Unsupported
              /\ overrides >= 1 => config' = config
        /\ refused => ~HasLoc /\ ~HasLocGlob /\ config' = config
        /\ (~HasLoc /\ ~HasLocGlob) => overrides' = overrides
        /\ (~HasLoc /\ ~HasLocGlob /\ args.override_config /\ pc' # pc)
              => refused

\* C10 as amended: when override_config_with_checkpoint returns, the flags
\* are (global=false, location=true) if the name contains 'loc_checkpoint',
\* and (global=true, location=true) if it contains 'loc_glob_checkpoint' and
\* not 'loc_checkpoint'; build_model then does not raise; a name with
\* neither raises NotImplementedError and leaves the flags; a second
\* application changes nothing.
C10_OverrideFirstMatchWins == [][OverrideStep(TRUE)]_vars

\* C10 as stated: (global=true, location=true) for every name that contains
\* 'loc_glob_checkpoint'.
C10_OverrideAsStated == [][OverrideStep(FALSE)]_vars

C10_Witness ==
    /\ HasLoc /\ HasLocGlob
    /\ overrides >= 2
    /\ pc = "ready"
    /\ model.class = "CaptionLoc"
    /\ FlagsAre(config, FALSE, TRUE)

\* the epochs this run has gone through so far
EpochsRun == epoch - config.start_epoch + 1

InLoop == pc \in {"training", "saved", "early_stopped", "finished"}
BeforeTest == pc \in {"saved", "early_stopped"}
AfterRecord == pc \in {"training", "finished"} /\ EpochsRun >= 1

\* score is strictly below each of the last Window entries of scores
BelowWindow(score, scores) ==
    \A i \in DOMAIN scores : i > Len(scores) - Window => score < scores[i]

\* the scores recorded when the epoch run last reached the early stopping test
RecordAtTest ==
    IF AfterRecord THEN SubSeq(cider_scores, 1, Len(cider_scores) - 1)
    ELSE cider_scores

\* C11: in the training loop the record of scores starts as [0] and holds,
\* after it, the score of every epoch that went on and of no other; every
\* epoch's checkpoint is written before its early stopping test, so the
\* stopping epoch's checkpoint exists when the loop has broken; with
\* early_stopping the loop has stopped at an epoch exactly when that epoch's
\* score is strictly below each of the last 10 recorded scores, and without
\* it the loop never stops early; early stopping never happens within the
\* first 10 epochs of a run
C11_EarlyStopping ==
    InLoop =>
      /\ cider_scores[1] = 0
      /\ Len(RecordAtTest) = Max(EpochsRun, 1)
      /\ Len(cider_scores) = IF AfterRecord THEN EpochsRun + 1 ELSE Len(RecordAtTest)
      /\ \A i \in 2 .. Len(cider_scores) : cider_scores[i] = saved[i - 1].cider_score
      /\ Len(saved) = EpochsRun
      /\ \A i \in DOMAIN saved : saved[i].epoch = config.start_epoch + i - 1
      /\ BeforeTest =>
            saved[Len(saved)] = [epoch |-> epoch, cider_score |-> cider_score]
      /\ pc = "early_stopped" =>
            /\ config.early_stopping
            /\ BelowWindow(cider_score, RecordAtTest)
            /\ EpochsRun > Window
      /\ (AfterRecord /\ config.early_stopping) =>
            ~BelowWindow(cider_score, RecordAtTest)

\* a run from scratch has stopped at its 11th epoch after ten better ones
C11_Witness ==
    /\ pc = "early_stopped"
    /\ config.early_stopping
    /\ EpochsRun = Window + 1
    /\ cider_score = 0
    /\ cider_scores = <<0>> \o [i \in 1 .. Window |-> 1]

====
